---- MODULE Spec2Model ----
(***************************************************************************)
(* Sender-address extraction from captured JSON-RPC records.               *)
(*                                                                         *)
(* The repository holds three variants of the same script:                 *)
(*   "simple" : src/index.js              multi-chain, unique set only     *)
(*   "multi"  : src/unnamed/part_001:1    multi-chain, unique set + counts *)
(*              (counts kept in a plain object shared by all chains)       *)
(*   "single" : src/unnamed/part_001:388  one chain, counts kept in a Map  *)
(* The variable mode selects the variant; the control flow of the three    *)
(* is the same except where the actions below say otherwise.               *)
(*                                                                         *)
(* A record is input: a field of it is fixed when the code first reads it  *)
(* (until then it holds UNREAD).  JavaScript runs a function to its next   *)
(* await without interleaving, so an action is the code between two awaits.*)
(***************************************************************************)
EXTENDS Integers, Sequences, FiniteSets, TLC

\* Bounds of the model.
MaxDocs == 2      \* records returned by the queries of one run, in total
MaxTxs == 2       \* length of response.body.result.transactions
MaxParams == 1    \* length of request.body.params
MaxFindings == 3  \* length of a finding sequence fed to the aggregator alone
MaxList == 2      \* length of a chain's address list handed to mergeAddresses alone
MaxRecords == 3   \* length of the record list that is processed in two orders

(***************************************************************************)
(* JavaScript values.  A string is the sequence of its characters.         *)
(***************************************************************************)
UNDEF == [t |-> "undefined"]
NULL == [t |-> "null"]
UNREAD == [t |-> "unread"]
NaN == [t |-> "NaN"]
FUNCTION == [t |-> "function"]
Str(s) == [t |-> "string", s |-> s]
Num(n) == [t |-> "number", n |-> n]
\* an object whose only property of interest is `from` (UNDEF when absent)
Obj(f) == [t |-> "object", from |-> f]
\* an array and its elements
Arr(elems) == [t |-> "array", elems |-> elems]
\* a block object: result.transactions
Block(txs) == [t |-> "object", from |-> UNDEF, transactions |-> txs]

\* typeof v
TypeOf(v) ==
  CASE v.t = "null" -> "object"
    [] v.t = "array" -> "object"
    [] v.t = "NaN" -> "number"
    [] OTHER -> v.t

\* ToBoolean(v)
Truthy(v) ==
  CASE v.t = "undefined" -> FALSE
    [] v.t = "null" -> FALSE
    [] v.t = "NaN" -> FALSE
    [] v.t = "string" -> v.s # <<>>
    [] v.t = "number" -> v.n # 0
    [] OTHER -> TRUE

\* v.from would raise a TypeError (property access on null or undefined)
FromThrows(v) == v.t \in {"null", "undefined"}

\* v.from, v neither null nor undefined; v?.from for every v
GetFrom(v) == IF v.t = "object" THEN v.from ELSE UNDEF

\* Array.isArray(v)
IsArray(v) == v.t = "array"

\* v?.transactions
GetTransactions(v) ==
  IF v.t = "object" /\ "transactions" \in DOMAIN v THEN v.transactions ELSE UNDEF

\* v?.[0]
GetFirst(v) == IF v.t = "array" /\ v.elems # <<>> THEN v.elems[1] ELSE UNDEF

LowerChar(c) ==
  CASE c = "A" -> "a" [] c = "B" -> "b" [] c = "C" -> "c" [] c = "D" -> "d"
    [] c = "E" -> "e" [] c = "F" -> "f" [] c = "S" -> "s" [] c = "X" -> "x"
    [] OTHER -> c

\* a toLowerCase that is left out: the address is stored as found
ToLowerCaseLeftOut(s) == s

\* String.prototype.toLowerCase, on the characters
ToLowerCase(s) == [i \in 1..Len(s) |-> LowerChar(s[i])]

\* address.toLowerCase() raises a TypeError unless address is a string
LowerThrows(v) == v.t # "string"

(***************************************************************************)
(* The strings of the model.                                               *)
(***************************************************************************)
ADDR_A == <<"0", "x", "A">>
ADDR_a == <<"0", "x", "a">>
ADDR_b == <<"0", "x", "b">>
ADDR_c == <<"0", "x", "c">>
CONSTRUCTOR == <<"c", "o", "n", "s", "t", "r", "u", "c", "t", "o", "r">>
PROTO == <<"_", "_", "p", "r", "o", "t", "o", "_", "_">>
TOSTRING == <<"t", "o", "S", "t", "r", "i", "n", "g">>
H1 == <<"0", "x", "h", "1">>
H2 == <<"0", "x", "h", "2">>

eth_getBlockByNumber == "eth_getBlockByNumber"
eth_getBlockByHash == "eth_getBlockByHash"
eth_sendRawTransaction == "eth_sendRawTransaction"
eth_getTransactionByHash == "eth_getTransactionByHash"
eth_getTransactionReceipt == "eth_getTransactionReceipt"
eth_call == "eth_call"
eth_estimateGas == "eth_estimateGas"

\* doc.method: the seven methods the rules name, and a method they do not
\* name (a record without a method behaves as it does: no comparison holds)
Methods ==
  {eth_getBlockByNumber, eth_getBlockByHash, eth_sendRawTransaction,
   eth_getTransactionByHash, eth_getTransactionReceipt, eth_call,
   eth_estimateGas, "eth_chainId"}

\* a `from` found in a record: absent, an address, a string that is no
\* address (nothing validates it), a number
FromVals == {UNDEF, Str(ADDR_A), Str(CONSTRUCTOR), Num(5)}

\* an element of result.transactions
TxElems == {Obj(f) : f \in FromVals} \cup {Str(H1), Str(H2), NULL}

\* an element of request.body.params
ParamElems == {Obj(f) : f \in FromVals} \cup {Str(H1), NULL}

SeqsUpTo(S, n) == UNION {[1..m -> S] : m \in 0..n}

TxArrays == {Arr(elems) : elems \in SeqsUpTo(TxElems, MaxTxs)}

ParamArrays == {Arr(elems) : elems \in SeqsUpTo(ParamElems, MaxParams)}

\* doc.response?.body?.result, by the method of the record: absent (an
\* error response), null, or what the method answers with: a block, a
\* transaction hash, a transaction
Results(method) ==
  CASE method \in {eth_getBlockByNumber, eth_getBlockByHash} ->
         {UNDEF, NULL} \cup {Block(a) : a \in TxArrays}
    [] method = eth_sendRawTransaction -> {UNDEF, Str(H1), Str(H2)}
    [] OTHER -> {UNDEF, NULL} \cup {Obj(f) : f \in FromVals}

\* doc.request?.body?.params
Params == {UNDEF} \cup ParamArrays

\* what provider.getTransaction(hash) does: it raises, or it returns null
\* (no such transaction) or a transaction
THROW == [t |-> "throw"]
Answers == {THROW, NULL, Obj(Str(ADDR_a))}
\* the answer of a call that has not settled
AWAITED == [t |-> "awaited"]

(***************************************************************************)
(* The aggregator: the unique set and the counts.                          *)
(***************************************************************************)
Emp == [k \in {} |-> 0]

\* an add that keeps duplicates, as Array.prototype.push does
SetAddAsPush(u, x) == Append(u, x)

\* Set.prototype.add / the key order of a Map: insertion order, no duplicate
SetAdd(u, x) == IF \E i \in 1..Len(u) : u[i] = x THEN u ELSE Append(u, x)

\* the properties a plain object inherits from Object.prototype
ObjectPrototypeKeys == {CONSTRUCTOR, PROTO, TOSTRING}

\* addressCounts[key] of the plain object {} (part_001:285)
ObjGet(c, key) ==
  IF key \in DOMAIN c THEN c[key]
  ELSE IF key \in ObjectPrototypeKeys THEN FUNCTION
  ELSE UNDEF

\* addressCounts[key] = v of a plain object: the __proto__ setter ignores
\* a value that is no object
ObjPut(c, key, v) ==
  IF key = PROTO THEN c
  ELSE [k \in DOMAIN c \cup {key} |-> IF k = key THEN v ELSE c[k]]

\* x + 1 after ToNumber(x)
Increment(v) == IF v.t = "number" THEN Num(v.n + 1) ELSE NaN

\* Map.prototype.get / set
MapGet(c, key) == IF key \in DOMAIN c THEN c[key] ELSE UNDEF
MapPut(c, key, v) == [k \in DOMAIN c \cup {key} |-> IF k = key THEN v ELSE c[k]]

\* addAddress(address), simple variant (index.js:134): the new unique set
AddUnique(m, u, address) ==
  IF m # "single" /\ ~Truthy(address) THEN u
  ELSE SetAdd(u, ToLowerCase(address.s))

\* addAddress(address): the new counts.  "multi" keeps them in a plain
\* object (part_001:139), "single" in a Map (part_001:534), "simple" keeps none
AddCount(m, c, address) ==
  LET lowerAddress == ToLowerCase(address.s) IN
  CASE m = "simple" -> c
    [] m = "multi" ->
         IF ~Truthy(address) THEN c
         ELSE IF Truthy(ObjGet(c, lowerAddress))
              THEN ObjPut(c, lowerAddress, Increment(ObjGet(c, lowerAddress)))
              ELSE ObjPut(c, lowerAddress, Num(1))
    [] OTHER ->
         LET old == MapGet(c, lowerAddress) IN
         MapPut(c, lowerAddress, Increment(IF Truthy(old) THEN old ELSE Num(0)))

\* addAddress(address) raises: toLowerCase of a value that is no string
\* (the variants with `if (address)` never reach it for a falsy value)
AddAddressThrows(m, address) ==
  IF m = "single" THEN LowerThrows(address)
  ELSE Truthy(address) /\ LowerThrows(address)

\* mergeAddresses(allAddressArrays): every address of every array, added
\* to one Set in order
RECURSIVE AddAll(_, _)
AddAll(u, arr) == IF arr = <<>> THEN u ELSE AddAll(SetAdd(u, Head(arr)), Tail(arr))

RECURSIVE MergeInto(_, _)
MergeInto(u, arrays) ==
  IF arrays = <<>> THEN u ELSE MergeInto(AddAll(u, Head(arrays)), Tail(arrays))

MergeAddresses(allArrays) == MergeInto(<<>>, allArrays)

(***************************************************************************)
(* The program.                                                            *)
(***************************************************************************)
ALL_CHAINS == <<"bnb", "mainnet", "bnbtestnet", "holesky">>

Modes == {"simple", "multi", "single"}

BlockMethods == {eth_getBlockByNumber, eth_getBlockByHash}
CallMethods == {eth_call, eth_estimateGas}

VARIABLES
  mode,               \* the variant of the script that runs
  env,                \* the environment: "required" and the chains with an RPC URL
  pc,                 \* position in main
  chainIdx,           \* the chain being processed (index in ALL_CHAINS)
  docsLeft,           \* records the queries may still return
  numDocs,            \* transactions.length
  processedCount,
  errors,             \* records whose processing raised (console.error, line 120)
  doc,                \* the record being processed
  dpc,                \* position in processDocument
  j,                  \* index of txHash in txs
  pending,            \* the getTransaction calls issued and not settled
  uniqueAddresses,    \* the Set (the key order of the Map in "single")
  addressCounts,
  allAddressArrays,
  transactionsByChain,
  mergedAddresses,    \* the list handed to the CSV writer
  before,             \* log: the Set and the counts when the rules in hand started
  findings,           \* log: the addAddress calls the rules in hand made
  calls,              \* log: the getTransaction calls the rules in hand made
  evaluated,          \* log: the rule groups evaluated to their end, this record
  transactions,       \* the record list, where a specification fixes it
  getTransaction,     \* the resolver as a function of the hash, where one fixes it
  firstPass,          \* the record list, the Set and the counts of a finished run
  recorded            \* log: the addAddress calls that counted an address, so far

replay == <<transactions, getTransaction, firstPass>>
main == <<mode, env, pc, chainIdx, docsLeft, numDocs, allAddressArrays,
          transactionsByChain, mergedAddresses, replay>>
loop == <<processedCount, errors>>
agg == <<uniqueAddresses, addressCounts, recorded>>
logs == <<before, findings, calls, evaluated>>
vars == <<main, loop, doc, dpc, j, pending, agg, logs>>

\* the environments of the model: everything set, a required variable
\* missing, the RPC URL of the last chain missing
AllVariables == {"required"} \cup {ALL_CHAINS[i] : i \in 1..Len(ALL_CHAINS)}
Environments ==
  {AllVariables, AllVariables \ {"required"}, AllVariables \ {ALL_CHAINS[Len(ALL_CHAINS)]}}

NoDoc == [method |-> "undefined", result |-> UNREAD, params |-> UNREAD]
NoLog == [u |-> <<>>, c |-> Emp]
NoPass == [done |-> FALSE, transactions |-> <<>>, u |-> <<>>, c |-> Emp]

\* the records are drawn as they are read and the resolver answers as it
\* likes: no record list and no resolver function is fixed
NothingFixed == transactions = <<>> /\ getTransaction = Emp /\ firstPass = NoPass

Init ==
  /\ mode \in Modes
  /\ env \in Environments
  /\ pc = "validate"
  /\ chainIdx \in (IF mode = "single" THEN {1, Len(ALL_CHAINS)} ELSE {1})
  /\ docsLeft = MaxDocs
  /\ numDocs = 0
  /\ processedCount = 0
  /\ errors = 0
  /\ doc = NoDoc
  /\ dpc = "none"
  /\ j = 0
  /\ pending = <<>>
  /\ uniqueAddresses = <<>>
  /\ recorded = 0
  /\ addressCounts = Emp
  /\ allAddressArrays = <<>>
  /\ transactionsByChain = <<>>
  /\ mergedAddresses = <<>>
  /\ before = NoLog /\ findings = <<>> /\ calls = <<>> /\ evaluated = {}
  /\ NothingFixed

\* validateConfig: exits unless the required variables and the RPC URLs of
\* the chains to process are set
ValidateConfig ==
  /\ pc = "validate"
  /\ LET needed == IF mode = "single" THEN {ALL_CHAINS[chainIdx]}
                   ELSE {ALL_CHAINS[i] : i \in 1..Len(ALL_CHAINS)}
     IN pc' = IF "required" \in env /\ needed \subseteq env THEN "connect" ELSE "exit1"
  /\ UNCHANGED <<mode, env, replay, chainIdx, docsLeft, numDocs, allAddressArrays,
                 transactionsByChain, mergedAddresses>>
  /\ UNCHANGED <<loop, doc, dpc, j, pending, agg, logs>>

\* connectToMongoDB: rethrows, which main catches (exit 1)
ConnectToMongoDB ==
  /\ pc = "connect"
  /\ \E ok \in BOOLEAN :
       pc' = IF ~ok THEN "exit1" ELSE IF mode = "single" THEN "query" ELSE "chains"
  /\ UNCHANGED <<mode, env, replay, chainIdx, docsLeft, numDocs, allAddressArrays,
                 transactionsByChain, mergedAddresses>>
  /\ UNCHANGED <<loop, doc, dpc, j, pending, agg, logs>>

\* getRpcProvider(chain) raises: no RPC URL configured for the chain
GetRpcProviderThrows(chain) == chain \notin env

\* processChain returns: main pushes its addresses and its record count
ChainReturns(addresses, transactionCount) ==
  /\ allAddressArrays' = Append(allAddressArrays, addresses)
  /\ transactionsByChain' = Append(transactionsByChain, transactionCount)
  /\ chainIdx' = chainIdx + 1
  /\ pc' = "chains"

\* processChain without its try / catch: what getRpcProvider or
\* queryTransactions raises reaches the catch of main
ProcessChainFailsUncaught ==
  /\ pc = "chains" /\ chainIdx <= Len(ALL_CHAINS)
  /\ pc' = "exit1"
  /\ UNCHANGED <<mode, env, replay, chainIdx, docsLeft, numDocs, allAddressArrays,
                 transactionsByChain, mergedAddresses>>
  /\ UNCHANGED <<loop, doc, dpc, j, pending, agg, logs>>

\* processChain: getRpcProvider or queryTransactions raises, into the catch
\* of processChain, which logs the error
ProcessChainFails ==
  /\ pc = "chains" /\ chainIdx <= Len(ALL_CHAINS)
  /\ pc' = "caught"
  /\ UNCHANGED <<mode, env, replay, chainIdx, docsLeft, numDocs, allAddressArrays,
                 transactionsByChain, mergedAddresses>>
  /\ UNCHANGED <<loop, doc, dpc, j, pending, agg, logs>>

\* the catch of processChain returns an empty list and a count of 0, and
\* main goes on after its await
ProcessChainCaught ==
  /\ pc = "caught"
  /\ ChainReturns(<<>>, 0)
  /\ UNCHANGED <<mode, env, replay, docsLeft, numDocs, mergedAddresses>>
  /\ UNCHANGED <<loop, doc, dpc, j, pending, agg, logs>>

\* processChain: the query returns no record
ProcessChainEmpty ==
  /\ pc = "chains" /\ chainIdx <= Len(ALL_CHAINS)
  /\ ~GetRpcProviderThrows(ALL_CHAINS[chainIdx])
  /\ ChainReturns(<<>>, 0)
  /\ UNCHANGED <<mode, env, replay, docsLeft, numDocs, mergedAddresses>>
  /\ UNCHANGED <<loop, doc, dpc, j, pending, agg, logs>>

\* extractFromAddresses starts: a new Set (a new Map in "single"), the
\* counter at 0
ExtractStarts(n) ==
  /\ numDocs' = n
  /\ docsLeft' = docsLeft - n
  /\ processedCount' = 0
  /\ uniqueAddresses' = <<>>
  /\ addressCounts' = IF mode = "single" THEN Emp ELSE addressCounts
  /\ recorded' = IF mode = "single" THEN 0 ELSE recorded
  /\ pc' = "extract"

\* processChain: the query returns n records; extractFromAddresses starts
ProcessChainExtracts ==
  /\ pc = "chains" /\ chainIdx <= Len(ALL_CHAINS)
  /\ ~GetRpcProviderThrows(ALL_CHAINS[chainIdx])
  /\ \E n \in 1..docsLeft : ExtractStarts(n)
  /\ UNCHANGED <<mode, env, replay, chainIdx, allAddressArrays, transactionsByChain,
                 mergedAddresses>>
  /\ UNCHANGED <<errors, doc, dpc, j, pending, logs>>

\* main of "single": getRpcProvider, queryTransactions (a failure is
\* fatal), extractFromAddresses (also of an empty list)
SingleQuery ==
  /\ pc = "query" /\ mode = "single"
  /\ \/ /\ pc' = "exit1"
        /\ UNCHANGED <<numDocs, docsLeft, processedCount, agg>>
     \/ /\ ~GetRpcProviderThrows(ALL_CHAINS[chainIdx])
        /\ \E n \in 0..docsLeft : ExtractStarts(n)
  /\ UNCHANGED <<mode, env, replay, chainIdx, allAddressArrays, transactionsByChain,
                 mergedAddresses>>
  /\ UNCHANGED <<errors, doc, dpc, j, pending, logs>>

(***************************************************************************)
(* extractFromAddresses: the loop over the records.                        *)
(***************************************************************************)
\* for (const doc of transactions): processedCount++ and processDocument
\* is entered
NextDoc ==
  /\ pc = "extract" /\ dpc = "none" /\ processedCount < numDocs
  /\ processedCount' = processedCount + 1
  /\ \E d \in (IF transactions = <<>>
               THEN {[method |-> m, result |-> UNREAD, params |-> UNREAD] : m \in Methods}
               ELSE {transactions[processedCount + 1]}) : doc' = d
  /\ dpc' = "case1"
  /\ before' = [u |-> uniqueAddresses, c |-> addressCounts]
  /\ UNCHANGED <<main, errors, j, pending, agg, findings, calls, evaluated>>

\* the loop without its try / catch: what processDocument raises leaves
\* extractFromAddresses, to the catch of processChain (of main in "single")
DocEndsUncaught ==
  /\ pc = "extract" /\ dpc \in {"done", "thrown"}
  /\ errors' = IF dpc = "thrown" THEN errors + 1 ELSE errors
  /\ dpc' = "none"
  /\ doc' = NoDoc
  /\ j' = 0
  /\ before' = NoLog /\ findings' = <<>> /\ calls' = <<>> /\ evaluated' = {}
  /\ IF dpc = "done"
     THEN UNCHANGED <<pc, chainIdx, allAddressArrays, transactionsByChain>>
     ELSE IF mode = "single"
          THEN /\ pc' = "exit1"
               /\ UNCHANGED <<chainIdx, allAddressArrays, transactionsByChain>>
          ELSE ChainReturns(<<>>, 0)
  /\ UNCHANGED <<mode, env, replay, docsLeft, numDocs, mergedAddresses>>
  /\ UNCHANGED <<processedCount, pending, agg>>

\* the loop with a timeout around processDocument: a call that has not
\* settled is given up and the record ends as one that raised
DocEndsOnTimeout ==
  /\ pc = "extract" /\ (dpc \in {"done", "thrown"} \/ pending # <<>>)
  /\ errors' = IF dpc = "done" THEN errors ELSE errors + 1
  /\ dpc' = "none"
  /\ doc' = NoDoc
  /\ j' = 0
  /\ pending' = <<>>
  /\ before' = NoLog /\ findings' = <<>> /\ calls' = <<>> /\ evaluated' = {}
  /\ UNCHANGED <<main, processedCount, agg>>

\* the loop with a catch that starts the collection again: what was
\* found before the record that raised is dropped
DocEndsClearing ==
  /\ pc = "extract" /\ dpc \in {"done", "thrown"}
  /\ errors' = IF dpc = "thrown" THEN errors + 1 ELSE errors
  /\ dpc' = "none"
  /\ doc' = NoDoc
  /\ j' = 0
  /\ before' = NoLog /\ findings' = <<>> /\ calls' = <<>> /\ evaluated' = {}
  /\ uniqueAddresses' = IF dpc = "thrown" THEN <<>> ELSE uniqueAddresses
  /\ addressCounts' = IF dpc = "thrown" THEN Emp ELSE addressCounts
  /\ recorded' = IF dpc = "thrown" THEN 0 ELSE recorded
  /\ UNCHANGED <<main, processedCount, pending>>

\* processDocument returned, or raised into the catch of the loop, which
\* logs the error: the loop goes on; the record goes out of scope
DocEnds ==
  /\ pc = "extract" /\ dpc \in {"done", "thrown"}
  /\ errors' = IF dpc = "thrown" THEN errors + 1 ELSE errors
  /\ dpc' = "none"
  /\ doc' = NoDoc
  /\ j' = 0
  /\ before' = NoLog /\ findings' = <<>> /\ calls' = <<>> /\ evaluated' = {}
  /\ UNCHANGED <<main, processedCount, pending, agg>>

\* extractFromAddresses returns Array.from(uniqueAddresses) (the entries of
\* the Map in "single", which main hands to the CSV writer)
ExtractReturns ==
  /\ pc = "extract" /\ dpc = "none" /\ processedCount = numDocs
  /\ IF mode = "single"
     THEN /\ mergedAddresses' = uniqueAddresses
          /\ pc' = "write"
          /\ UNCHANGED <<chainIdx, allAddressArrays, transactionsByChain>>
     ELSE /\ ChainReturns(uniqueAddresses, numDocs)
          /\ UNCHANGED mergedAddresses
  /\ UNCHANGED <<mode, env, replay, docsLeft, numDocs>>
  /\ UNCHANGED <<loop, doc, dpc, j, pending, agg, logs>>

\* main, after the last chain: mergeAddresses(allAddressArrays)
Merge ==
  /\ pc = "chains" /\ chainIdx > Len(ALL_CHAINS)
  /\ mergedAddresses' = MergeAddresses(allAddressArrays)
  /\ pc' = "write"
  /\ UNCHANGED <<mode, env, replay, chainIdx, docsLeft, numDocs, allAddressArrays,
                 transactionsByChain>>
  /\ UNCHANGED <<loop, doc, dpc, j, pending, agg, logs>>

\* the CSV writers: exit 0, or a failure main catches (exit 1)
WriteCsv ==
  /\ pc = "write"
  /\ \E ok \in BOOLEAN : pc' = IF ok THEN "exit0" ELSE "exit1"
  /\ UNCHANGED <<mode, env, replay, chainIdx, docsLeft, numDocs, allAddressArrays,
                 transactionsByChain, mergedAddresses>>
  /\ UNCHANGED <<loop, doc, dpc, j, pending, agg, logs>>

(***************************************************************************)
(* processDocument.  A run of synchronous code is folded over a record     *)
(* [u, c, n, f, threw]: the unique set, the counts, the logs, and          *)
(* whether an exception is propagating (what was added before it stays).   *)
(***************************************************************************)
Start == [u |-> uniqueAddresses, c |-> addressCounts, n |-> recorded, f |-> findings,
          threw |-> FALSE]

\* addAddress(address), called by rule `rule`
AddAddress(st, rule, address) ==
  IF st.threw THEN st
  ELSE IF AddAddressThrows(mode, address) THEN [st EXCEPT !.threw = TRUE]
  ELSE [u |-> AddUnique(mode, st.u, address),
        c |-> AddCount(mode, st.c, address),
        n |-> IF mode # "simple" /\ (mode = "single" \/ Truthy(address))
              THEN st.n + 1 ELSE st.n,
        f |-> IF mode = "single" \/ Truthy(address)
              THEN Append(st.f, [rule |-> rule, raw |-> address.s,
                                 address |-> ToLowerCase(address.s)])
              ELSE st.f,
        threw |-> FALSE]

\* for (const tx of txs) { if (tx.from) addAddress(tx.from); }
RECURSIVE TxObjLoop(_, _)
TxObjLoop(st, txs) ==
  IF txs = <<>> \/ st.threw THEN st
  ELSE LET tx == Head(txs) IN
       IF FromThrows(tx) THEN [st EXCEPT !.threw = TRUE]
       ELSE IF Truthy(GetFrom(tx))
            THEN TxObjLoop(AddAddress(st, "block", GetFrom(tx)), Tail(txs))
            ELSE TxObjLoop(st, Tail(txs))

\* the loop without its test of param.from
RECURSIVE ParamLoopNoFromTest(_, _)
ParamLoopNoFromTest(st, params) ==
  IF params = <<>> \/ st.threw THEN st
  ELSE LET param == Head(params) IN
       IF Truthy(param) /\ TypeOf(param) = "object"
       THEN ParamLoopNoFromTest(AddAddress(st, "param", GetFrom(param)), Tail(params))
       ELSE ParamLoopNoFromTest(st, Tail(params))

\* for (const param of params)
\*   if (param && typeof param === 'object' && param.from) addAddress(param.from);
RECURSIVE ParamLoop(_, _)
ParamLoop(st, params) ==
  IF params = <<>> \/ st.threw THEN st
  ELSE LET param == Head(params) IN
       IF Truthy(param) /\ TypeOf(param) = "object" /\ Truthy(GetFrom(param))
       THEN ParamLoop(AddAddress(st, "param", GetFrom(param)), Tail(params))
       ELSE ParamLoop(st, Tail(params))

\* CASE 3: if (doc.request?.body?.params) { if (Array.isArray(params)) ...
Case3(st, params) ==
  IF Truthy(params) /\ IsArray(params) THEN ParamLoop(st, params.elems) ELSE st

\* CASE 4: eth_call / eth_estimateGas and params?.[0]?.from
Case4(st, method, params) ==
  IF st.threw THEN st
  ELSE IF method \in CallMethods /\ Truthy(GetFrom(GetFirst(params)))
       THEN AddAddress(st, "call", GetFrom(GetFirst(params)))
       ELSE st

\* inside try { ... } catch { }: if (txDetails?.from) addAddress(txDetails.from);
\* what getTransaction or addAddress raises is swallowed
Resolved(st, txDetails) ==
  LET from == IF txDetails = THROW THEN UNDEF ELSE GetFrom(txDetails) IN
  IF Truthy(from) /\ ~AddAddressThrows(mode, from)
  THEN AddAddress(st, "resolved", from)
  ELSE st

\* the aggregator and the log after a run of synchronous code
Commit(st) ==
  /\ uniqueAddresses' = st.u
  /\ addressCounts' = st.c
  /\ recorded' = st.n
  /\ findings' = st.f

\* provider.getTransaction(hash) is called and awaited
Call(outstanding, answered, hash) ==
  /\ pending' = Append(outstanding, hash)
  /\ calls' = Append(answered, [hash |-> hash, answer |-> AWAITED])

\* what getTransaction(hash) may settle with: anything, or what the fixed
\* resolver answers to this hash
AnswersTo(hash) == IF getTransaction = Emp THEN Answers ELSE {getTransaction[hash]}

\* reading a field of the record: the value it was read with, or any value
Read(field, values) == IF field = UNREAD THEN values ELSE {field}

\* the block rule with the hashes resolved all at once (no await between
\* the calls)
RuleBlockFanOut ==
  /\ pc = "extract" /\ dpc = "case1" /\ doc.method \in BlockMethods
  /\ \E r \in Read(doc.result, Results(doc.method)) :
       /\ doc' = [doc EXCEPT !.result = r]
       /\ LET txs == GetTransactions(r) IN
          IF IsArray(txs) /\ txs.elems # <<>> /\ TypeOf(txs.elems[1]) = "object"
          THEN LET st == TxObjLoop(Start, txs.elems) IN
               /\ Commit(st)
               /\ dpc' = IF st.threw THEN "thrown" ELSE "case3"
               /\ evaluated' = IF st.threw THEN evaluated ELSE evaluated \cup {"case1"}
               /\ UNCHANGED <<j, pending, calls>>
          ELSE IF IsArray(txs) /\ txs.elems # <<>>
          THEN /\ j' = Len(txs.elems)
               /\ pending' = txs.elems
               /\ calls' = [i \in 1..Len(txs.elems) |->
                             [hash |-> txs.elems[i], answer |-> AWAITED]]
               /\ dpc' = "txhash"
               /\ UNCHANGED <<agg, findings, evaluated>>
          ELSE /\ dpc' = "case3"
               /\ evaluated' = evaluated \cup {"case1"}
               /\ UNCHANGED <<j, pending, agg, findings, calls>>
  /\ UNCHANGED <<main, loop, before>>

\* the block rule with the branch chosen from all the elements
\* (txs.every(tx => typeof tx === 'object'))
RuleBlockEveryElement ==
  /\ pc = "extract" /\ dpc = "case1" /\ doc.method \in BlockMethods
  /\ \E r \in Read(doc.result, Results(doc.method)) :
       /\ doc' = [doc EXCEPT !.result = r]
       /\ LET txs == GetTransactions(r) IN
          IF /\ IsArray(txs) /\ txs.elems # <<>>
             /\ \A i \in 1..Len(txs.elems) : TypeOf(txs.elems[i]) = "object"
          THEN LET st == TxObjLoop(Start, txs.elems) IN
               /\ Commit(st)
               /\ dpc' = IF st.threw THEN "thrown" ELSE "case3"
               /\ evaluated' = IF st.threw THEN evaluated ELSE evaluated \cup {"case1"}
               /\ UNCHANGED <<j, pending, calls>>
          ELSE IF IsArray(txs) /\ txs.elems # <<>>
          THEN /\ j' = 1
               /\ Call(pending, calls, txs.elems[1])
               /\ dpc' = "txhash"
               /\ UNCHANGED <<agg, findings, evaluated>>
          ELSE /\ dpc' = "case3"
               /\ evaluated' = evaluated \cup {"case1"}
               /\ UNCHANGED <<j, pending, agg, findings, calls>>
  /\ UNCHANGED <<main, loop, before>>

\* CASE 1, the block rule: Array.isArray(result?.transactions), then the
\* branch on typeof txs[0]: the loop over transaction objects, or the loop
\* over hashes up to its first await
RuleBlock ==
  /\ pc = "extract" /\ dpc = "case1" /\ doc.method \in BlockMethods
  /\ \E r \in Read(doc.result, Results(doc.method)) :
       /\ doc' = [doc EXCEPT !.result = r]
       /\ LET txs == GetTransactions(r) IN
          IF IsArray(txs) /\ txs.elems # <<>> /\ TypeOf(txs.elems[1]) = "object"
          THEN LET st == TxObjLoop(Start, txs.elems) IN
               /\ Commit(st)
               /\ dpc' = IF st.threw THEN "thrown" ELSE "case3"
               /\ evaluated' = IF st.threw THEN evaluated ELSE evaluated \cup {"case1"}
               /\ UNCHANGED <<j, pending, calls>>
          ELSE IF IsArray(txs) /\ txs.elems # <<>>
          THEN /\ j' = 1
               /\ Call(pending, calls, txs.elems[1])
               /\ dpc' = "txhash"
               /\ UNCHANGED <<agg, findings, evaluated>>
          ELSE /\ dpc' = "case3"
               /\ evaluated' = evaluated \cup {"case1"}
               /\ UNCHANGED <<j, pending, agg, findings, calls>>
  /\ UNCHANGED <<main, loop, before>>

\* CASE 2: eth_sendRawTransaction, the hash is the result
RuleSendRaw ==
  /\ pc = "extract" /\ dpc = "case1" /\ doc.method = eth_sendRawTransaction
  /\ \E r \in Read(doc.result, Results(doc.method)) :
       /\ doc' = [doc EXCEPT !.result = r]
       /\ IF Truthy(r)
          THEN Call(pending, calls, r) /\ dpc' = "sendraw" /\ UNCHANGED evaluated
          ELSE /\ dpc' = "case3" /\ evaluated' = evaluated \cup {"case1"}
               /\ UNCHANGED <<pending, calls>>
  /\ UNCHANGED <<main, loop, j, agg, before, findings>>

\* eth_getTransactionByHash: result.from is the address
RuleGetTransaction ==
  /\ pc = "extract" /\ dpc = "case1" /\ doc.method = eth_getTransactionByHash
  /\ \E r \in Read(doc.result, Results(doc.method)) :
       /\ doc' = [doc EXCEPT !.result = r]
       /\ LET st == IF Truthy(GetFrom(r)) THEN AddAddress(Start, "result", GetFrom(r))
                    ELSE Start
          IN /\ Commit(st)
             /\ dpc' = IF st.threw THEN "thrown" ELSE "case3"
             /\ evaluated' = IF st.threw THEN evaluated ELSE evaluated \cup {"case1"}
  /\ UNCHANGED <<main, loop, j, pending, before, calls>>

\* the receipt rule without `if (txHash)`
RuleReceiptNoHashTest ==
  /\ pc = "extract" /\ dpc = "case1" /\ doc.method = eth_getTransactionReceipt
  /\ \E p \in Read(doc.params, Params) :
       /\ doc' = [doc EXCEPT !.params = p]
       /\ Call(pending, calls, GetFirst(p)) /\ dpc' = "receipt" /\ UNCHANGED evaluated
  /\ UNCHANGED <<main, loop, j, agg, before, findings>>

\* eth_getTransactionReceipt: the hash is params[0]
RuleReceipt ==
  /\ pc = "extract" /\ dpc = "case1" /\ doc.method = eth_getTransactionReceipt
  /\ \E p \in Read(doc.params, Params) :
       /\ doc' = [doc EXCEPT !.params = p]
       /\ IF Truthy(GetFirst(p))
          THEN Call(pending, calls, GetFirst(p)) /\ dpc' = "receipt" /\ UNCHANGED evaluated
          ELSE /\ dpc' = "case3" /\ evaluated' = evaluated \cup {"case1"}
               /\ UNCHANGED <<pending, calls>>
  /\ UNCHANGED <<main, loop, j, agg, before, findings>>

\* no branch of the if / else-if chain is for this method
RuleNone ==
  /\ pc = "extract" /\ dpc = "case1"
  /\ doc.method \notin BlockMethods \cup {eth_sendRawTransaction,
       eth_getTransactionByHash, eth_getTransactionReceipt}
  /\ dpc' = "case3"
  /\ evaluated' = evaluated \cup {"case1"}
  /\ UNCHANGED <<main, loop, doc, j, pending, agg, before, findings, calls>>

\* the awaited call settles, without try / catch around it: what
\* getTransaction raises leaves processDocument
ResolverReturnsUncaught ==
  /\ pc = "extract" /\ pending # <<>>
  /\ \E txDetails \in AnswersTo(Head(pending)) :
       /\ Commit(Resolved(Start, txDetails))
       /\ LET txs == GetTransactions(doc.result)
              answered == [calls EXCEPT ![Len(calls)].answer = txDetails]
          IN
          IF txDetails = THROW
          THEN /\ j' = 0
               /\ pending' = Tail(pending)
               /\ calls' = answered
               /\ dpc' = "thrown"
               /\ UNCHANGED evaluated
          ELSE IF dpc = "txhash" /\ j < Len(txs.elems)
          THEN /\ j' = j + 1
               /\ Call(Tail(pending), answered, txs.elems[j + 1])
               /\ UNCHANGED <<dpc, evaluated>>
          ELSE /\ j' = 0
               /\ pending' = Tail(pending)
               /\ calls' = answered
               /\ dpc' = "case3"
               /\ evaluated' = evaluated \cup {"case1"}
  /\ UNCHANGED <<main, loop, doc, before>>

\* the awaited getTransaction call settles: it raises, or returns
\* txDetails.  In the loop over hashes the next hash is then called.
ResolverReturns ==
  /\ pc = "extract" /\ pending # <<>>
  /\ \E txDetails \in AnswersTo(Head(pending)) :
       /\ Commit(Resolved(Start, txDetails))
       /\ LET txs == GetTransactions(doc.result)
              answered == [calls EXCEPT ![Len(calls)].answer = txDetails]
          IN
          IF dpc = "txhash" /\ j < Len(txs.elems)
          THEN /\ j' = j + 1
               /\ Call(Tail(pending), answered, txs.elems[j + 1])
               /\ UNCHANGED <<dpc, evaluated>>
          ELSE /\ j' = 0
               /\ pending' = Tail(pending)
               /\ calls' = answered
               /\ dpc' = "case3"
               /\ evaluated' = evaluated \cup {"case1"}
  /\ UNCHANGED <<main, loop, doc, before>>

\* CASE 3 and CASE 4, which read the request params; the result is not
\* read again and goes out of the model, and the logs start again
Case3And4 ==
  /\ pc = "extract" /\ dpc = "case3"
  /\ \E p \in Read(doc.params, Params) :
       /\ doc' = [doc EXCEPT !.params = p, !.result = UNREAD]
       /\ calls' = <<>>
       /\ before' = [u |-> uniqueAddresses, c |-> addressCounts]
       /\ LET st3 == Case3([Start EXCEPT !.f = <<>>], p)
              st4 == Case4(st3, doc.method, p)
          IN /\ Commit(st4)
             /\ dpc' = IF st4.threw THEN "thrown" ELSE "done"
             /\ evaluated' = evaluated \cup (IF st3.threw THEN {} ELSE {"case3"})
                                       \cup (IF st4.threw THEN {} ELSE {"case4"})
  /\ UNCHANGED <<main, loop, j, pending>>

Next ==
  \/ ValidateConfig
  \/ ConnectToMongoDB
  \/ ProcessChainFails
  \/ ProcessChainCaught
  \/ ProcessChainEmpty
  \/ ProcessChainExtracts
  \/ SingleQuery
  \/ NextDoc
  \/ DocEnds
  \/ ExtractReturns
  \/ Merge
  \/ WriteCsv
  \/ RuleBlock
  \/ RuleSendRaw
  \/ RuleGetTransaction
  \/ RuleReceipt
  \/ RuleNone
  \/ ResolverReturns
  \/ Case3And4

Spec == Init /\ [][Next]_vars

\* the event loop runs whatever is ready to run, and every getTransaction
\* call settles (it returns or it raises)
SpecLive == Init /\ [][Next]_vars /\ WF_vars(Next)

(***************************************************************************)
(* The aggregator alone: addAddress is fed a sequence of address strings   *)
(* (pc = "feed", the log findings holds the sequence), then the same       *)
(* sequence once more (pc = "refeed", j strings fed again; the log before  *)
(* holds the Set and the counts after the first pass).                     *)
(***************************************************************************)
FedStrings == {ADDR_A, ADDR_a, CONSTRUCTOR}

InitAggregator ==
  /\ mode \in Modes
  /\ env = AllVariables
  /\ pc = "feed"
  /\ chainIdx = 1
  /\ docsLeft = 0
  /\ numDocs = 0
  /\ processedCount = 0
  /\ errors = 0
  /\ doc = NoDoc
  /\ dpc = "none"
  /\ j = 0
  /\ pending = <<>>
  /\ uniqueAddresses = <<>>
  /\ recorded = 0
  /\ addressCounts = Emp
  /\ allAddressArrays = <<>>
  /\ transactionsByChain = <<>>
  /\ mergedAddresses = <<>>
  /\ before = NoLog /\ findings = <<>> /\ calls = <<>> /\ evaluated = {}
  /\ NothingFixed

\* addAddress(address) for one more string of the sequence
Feed ==
  /\ pc = "feed" /\ Len(findings) < MaxFindings
  /\ \E raw \in FedStrings : Commit(AddAddress(Start, "fed", Str(raw)))
  /\ UNCHANGED <<main, loop, doc, dpc, j, pending, before, calls, evaluated>>

\* addAddress(address) for the next string of the sequence, fed again
Refeed ==
  /\ pc \in {"feed", "refeed"} /\ j < Len(findings)
  /\ pc' = "refeed"
  /\ before' = IF pc = "feed" THEN [u |-> uniqueAddresses, c |-> addressCounts]
                ELSE before
  /\ j' = j + 1
  /\ LET st == AddAddress(Start, "fed", Str(findings[j + 1].raw)) IN
       uniqueAddresses' = st.u /\ addressCounts' = st.c /\ recorded' = st.n
  /\ UNCHANGED <<mode, env, replay, chainIdx, docsLeft, numDocs, allAddressArrays,
                 transactionsByChain, mergedAddresses>>
  /\ UNCHANGED <<loop, doc, dpc, pending, findings, calls, evaluated>>

NextAggregator == Feed \/ Refeed

SpecAggregator == InitAggregator /\ [][NextAggregator]_vars

(***************************************************************************)
(* mergeAddresses alone: main has pushed one address list per chain, each  *)
(* the Array.from of a Set (no duplicate in a list), and merges them.      *)
(***************************************************************************)
MergedStrings == {ADDR_a, ADDR_b, ADDR_c}

AddressLists ==
  {l \in SeqsUpTo(MergedStrings, MaxList) :
     \A i, k \in 1..Len(l) : i # k => l[i] # l[k]}

InitMerge ==
  /\ mode \in Modes \ {"single"}
  /\ env = AllVariables
  /\ pc = "chains"
  /\ chainIdx = Len(ALL_CHAINS) + 1
  /\ docsLeft = 0
  /\ numDocs = 0
  /\ processedCount = 0
  /\ errors = 0
  /\ doc = NoDoc
  /\ dpc = "none"
  /\ j = 0
  /\ pending = <<>>
  /\ uniqueAddresses = <<>>
  /\ recorded = 0
  /\ addressCounts = Emp
  /\ allAddressArrays \in [1..Len(ALL_CHAINS) -> AddressLists]
  /\ transactionsByChain = [i \in 1..Len(ALL_CHAINS) |-> 0]
  /\ mergedAddresses = <<>>
  /\ before = NoLog /\ findings = <<>> /\ calls = <<>> /\ evaluated = {}
  /\ NothingFixed

NextMerge == Merge

SpecMerge == InitMerge /\ [][NextMerge]_vars

(***************************************************************************)
(* The program run twice on the same records: extractFromAddresses on a    *)
(* given record list with a resolver that is a function of the hash, then  *)
(* (a new Set, new counts) on a permutation of the list.                   *)
(***************************************************************************)
RecordsGiven ==
  {[method |-> eth_getBlockByNumber,
    result |-> Block(Arr(<<Obj(Str(ADDR_A)), Obj(Num(5))>>)), params |-> UNDEF],
   [method |-> eth_getBlockByHash,
    result |-> Block(Arr(<<Str(H1), Str(H2)>>)), params |-> UNDEF],
   [method |-> eth_getTransactionByHash,
    result |-> Obj(Str(CONSTRUCTOR)), params |-> UNDEF],
   [method |-> eth_sendRawTransaction,
    result |-> Str(H1), params |-> Arr(<<Obj(Str(CONSTRUCTOR))>>)],
   [method |-> eth_getTransactionReceipt,
    result |-> NULL, params |-> Arr(<<Str(H2)>>)],
   [method |-> eth_call,
    result |-> UNDEF, params |-> Arr(<<Obj(Str(ADDR_A))>>)]}

HashesGiven == {Str(H1), Str(H2)}

RecordLists == UNION {[1..n -> RecordsGiven] : n \in 2..MaxRecords}

\* the lists with the records of l in another order (l itself among them)
PermutationsOf(l) ==
  {[i \in 1..Len(l) |-> l[f[i]]] :
     f \in {g \in [1..Len(l) -> 1..Len(l)] : \A a, b \in 1..Len(l) : a # b => g[a] # g[b]}}

InitOrder ==
  /\ mode \in Modes
  /\ env = AllVariables
  /\ pc = "extract"
  /\ chainIdx = 1
  /\ docsLeft = 0
  /\ transactions \in RecordLists
  /\ numDocs = Len(transactions)
  /\ getTransaction \in [HashesGiven -> Answers]
  /\ firstPass = NoPass
  /\ processedCount = 0
  /\ errors = 0
  /\ doc = NoDoc
  /\ dpc = "none"
  /\ j = 0
  /\ pending = <<>>
  /\ uniqueAddresses = <<>>
  /\ recorded = 0
  /\ addressCounts = Emp
  /\ allAddressArrays = <<>>
  /\ transactionsByChain = <<>>
  /\ mergedAddresses = <<>>
  /\ before = NoLog /\ findings = <<>> /\ calls = <<>> /\ evaluated = {}

\* extractFromAddresses has gone through the list: the Set and the counts
\* are kept, and the program starts again on a permutation of the list
RunAgain ==
  /\ pc = "extract" /\ dpc = "none" /\ processedCount = numDocs
  /\ ~firstPass.done
  /\ firstPass' = [done |-> TRUE, transactions |-> transactions,
                   u |-> uniqueAddresses, c |-> addressCounts]
  /\ \E l \in PermutationsOf(transactions) : transactions' = l
  /\ processedCount' = 0
  /\ errors' = 0
  /\ uniqueAddresses' = <<>>
  /\ addressCounts' = Emp
  /\ recorded' = 0
  /\ UNCHANGED <<mode, env, pc, chainIdx, docsLeft, numDocs, allAddressArrays,
                 transactionsByChain, mergedAddresses, getTransaction>>
  /\ UNCHANGED <<doc, dpc, j, pending, logs>>

\* the second run has gone through the list
RunsEnd ==
  /\ pc = "extract" /\ dpc = "none" /\ processedCount = numDocs
  /\ firstPass.done
  /\ pc' = "write"
  /\ mergedAddresses' = uniqueAddresses
  /\ UNCHANGED <<mode, env, chainIdx, docsLeft, numDocs, allAddressArrays,
                 transactionsByChain, replay>>
  /\ UNCHANGED <<loop, doc, dpc, j, pending, agg, logs>>

NextOrder ==
  \/ NextDoc
  \/ DocEnds
  \/ RuleBlock
  \/ RuleSendRaw
  \/ RuleGetTransaction
  \/ RuleReceipt
  \/ RuleNone
  \/ ResolverReturns
  \/ Case3And4
  \/ RunAgain
  \/ RunsEnd

SpecOrder == InitOrder /\ [][NextOrder]_vars

(***************************************************************************)
(* The properties.  The rules of a record run in two groups: CASE 1 and    *)
(* CASE 2 (on the method and the response), then CASE 3 and CASE 4 (on the *)
(* request params).  The logs hold what the group in hand did.             *)
(***************************************************************************)
\* the first group has come to its end: normally, or by an exception
StageOneEnded == dpc = "case3" \/ (dpc = "thrown" /\ "case1" \notin evaluated)

\* the second group has come to its end
StageTwoEnded == dpc = "done" \/ (dpc = "thrown" /\ "case1" \in evaluated)

\* the variants that keep counts
Counting == mode \in {"multi", "single"}

\* lower-casing, stated letter by letter
Folds ==
  {<<"A", "a">>, <<"B", "b">>, <<"C", "c">>, <<"D", "d">>, <<"E", "e">>,
   <<"F", "f">>, <<"S", "s">>, <<"X", "x">>}
UpperCase == {p[1] : p \in Folds}
IsLowerCased(s) == \A i \in 1..Len(s) : s[i] \notin UpperCase
FoldsTo(raw, address) ==
  /\ Len(raw) = Len(address)
  /\ \A i \in 1..Len(raw) :
       IF raw[i] \in UpperCase THEN <<raw[i], address[i]>> \in Folds
       ELSE address[i] = raw[i]

\* two spellings of one address
SameAddress(a, b) ==
  /\ Len(a) = Len(b)
  /\ \A i \in 1..Len(a) :
       a[i] = b[i] \/ <<a[i], b[i]>> \in Folds \/ <<b[i], a[i]>> \in Folds

\* f is the finding rule `rule` makes of the string raw
IsFinding(f, rule, raw) == f.rule = rule /\ f.raw = raw /\ FoldsTo(raw, f.address)

\* the findings are those of `rule` for the strings raws, in their order
FindingsAre(rule, raws) ==
  /\ Len(findings) = Len(raws)
  /\ \A i \in 1..Len(raws) : IsFinding(findings[i], rule, raws[i])

\* the count a mapping reports for an address (0 when it has none)
CountOf(c, address) == IF address \in DOMAIN c THEN c[address] ELSE Num(0)
Plus(v, n) == IF v.t = "number" THEN Num(v.n + n) ELSE NaN
Occurrences(f, address) == Cardinality({i \in 1..Len(f) : f[i].address = address})
TimesStored(u, address) == Cardinality({i \in 1..Len(u) : u[i] = address})

\* every finding of the log raised its address's count by one, and the
\* address is in the unique set once
FindingsCounted ==
  \A i \in 1..Len(findings) :
    LET address == findings[i].address IN
    /\ TimesStored(uniqueAddresses, address) = 1
    /\ Counting =>
         CountOf(addressCounts, address)
           = Plus(CountOf(before.c, address), Occurrences(findings, address))

\* nothing was added to the unique set or to the counts
NothingAdded == uniqueAddresses = before.u /\ addressCounts = before.c

\* the `from` strings of the elements that carry one, in element order
RECURSIVE FromsOf(_)
FromsOf(elems) ==
  IF elems = <<>> THEN <<>>
  ELSE (IF Head(elems).t = "object" /\ Head(elems).from.t = "string"
        THEN <<Head(elems).from.s>> ELSE <<>>) \o FromsOf(Tail(elems))

\* the `from` strings of the transactions the calls were answered with
RECURSIVE AnsweredFroms(_)
AnsweredFroms(cs) ==
  IF cs = <<>> THEN <<>>
  ELSE (IF Head(cs).answer.t = "object" /\ Head(cs).answer.from.t = "string"
        THEN <<Head(cs).answer.from.s>> ELSE <<>>) \o AnsweredFroms(Tail(cs))

\* the transactions of a block record, once the record's result is read
Txs == GetTransactions(doc.result).elems
IsBlockRecord ==
  /\ doc.method \in BlockMethods /\ doc.result # UNREAD
  /\ IsArray(GetTransactions(doc.result))
  /\ Txs # <<>>

\* C1: an error in one rule of a record does not abort the record's other
\* rules: when processDocument ends for a record, by return or by
\* exception, the inline-param rule (CASE 3) and the call/estimate rule
\* (CASE 4) have both been evaluated to their end.
C1_RemainingRulesEvaluated ==
  dpc \in {"done", "thrown"} => {"case3", "case4"} \subseteq evaluated

\* C2: for a block record whose transactions are hash strings, the resolver
\* is called once per hash, in order; when the rule has ended every hash
\* was called, also those after a call that failed; the findings are the
\* lower-cased `from` of the calls that succeeded with one, in order; and
\* no exception leaves processDocument.
C2_HashesResolvedInOrder ==
  (/\ IsBlockRecord
   /\ \A i \in 1..Len(Txs) : Txs[i].t = "string"
   /\ dpc \in {"txhash", "case3", "thrown"})
  => /\ dpc # "thrown"
     /\ Len(calls) <= Len(Txs)
     /\ \A i \in 1..Len(calls) : calls[i].hash = Txs[i]
     /\ dpc = "case3" => Len(calls) = Len(Txs)
     /\ FindingsAre("resolved", AnsweredFroms(calls))

\* C2, its case: two hashes, the first call fails, the second succeeds
C2_HashAfterFailureResolved ==
  /\ dpc = "case3" /\ IsBlockRecord
  /\ calls = <<[hash |-> Str(H1), answer |-> THROW],
               [hash |-> Str(H2), answer |-> Obj(Str(ADDR_a))]>>
  /\ findings = <<[rule |-> "resolved", raw |-> ADDR_a, address |-> ADDR_a]>>

\* C3: for a block record whose transactions are structured objects (each
\* with a string `from` or none), every `from` is one lower-cased finding,
\* in element order and with duplicates kept, each finding raises its
\* address's count by exactly one, and the resolver is not called.
C3_StructuredBlockCounted ==
  (/\ StageOneEnded /\ IsBlockRecord
   /\ \A i \in 1..Len(Txs) :
        Txs[i].t = "object" /\ Txs[i].from.t \in {"undefined", "string"})
  => /\ dpc = "case3"
     /\ FindingsAre("block", FromsOf(Txs))
     /\ FindingsCounted
     /\ calls = <<>>

\* C4: an exception of one record stays with that record:
\* extractFromAddresses is left only with every record attempted (the
\* processed counter equals the number of records), never by an exception,
\* and inside it the counter never passes the number of records.
C4_EveryRecordAttempted ==
  /\ pc = "extract" => processedCount <= numDocs
  /\ pc # "extract" => processedCount = numDocs /\ dpc = "none"
  /\ errors <= MaxDocs - docsLeft

\* C4, its case: the second of two records is processed to its end after
\* the first raised
C4_RecordAfterFailureProcessed ==
  /\ pc = "extract" /\ dpc = "done"
  /\ numDocs = 2 /\ processedCount = 2 /\ errors = 1

\* C5: a record of eth_call or eth_estimateGas whose params[0] is an
\* object with the string `from` A, no other param carrying A: exactly two
\* findings for A, the first of the inline-param rule and the second of the
\* call/estimate rule; A's count is raised by exactly 2 and A is in the
\* unique set once.
C5_CallCountedTwice ==
  (/\ StageTwoEnded /\ doc.method \in CallMethods
   /\ GetFrom(GetFirst(doc.params)).t = "string"
   /\ GetFrom(GetFirst(doc.params)).s # <<>>
   /\ \A i \in 2..Len(doc.params.elems) :
        LET other == GetFrom(doc.params.elems[i]) IN
        ~(other.t = "string" /\ SameAddress(other.s, GetFrom(GetFirst(doc.params)).s)))
  => LET A == GetFrom(GetFirst(doc.params)).s
         mine == SelectSeq(findings, LAMBDA f : FoldsTo(A, f.address))
     IN /\ dpc = "done"
        /\ Len(mine) = 2
        /\ IsFinding(mine[1], "param", A)
        /\ IsFinding(mine[2], "call", A)
        /\ TimesStored(uniqueAddresses, mine[1].address) = 1
        /\ Counting =>
             CountOf(addressCounts, mine[1].address)
               = Plus(CountOf(before.c, mine[1].address), 2)

\* C6: every address stored (in the unique set, in a chain's list, in the
\* merged list, as a key of the counts) is lower-cased and stored once, and
\* the count of an entry is the number of the findings, in whatever
\* spelling, that fold to it.
C6_StoredLowerCasedAndSummed ==
  /\ \A i \in 1..Len(uniqueAddresses) :
       IsLowerCased(uniqueAddresses[i]) /\ TimesStored(uniqueAddresses, uniqueAddresses[i]) = 1
  /\ \A i \in 1..Len(mergedAddresses) :
       IsLowerCased(mergedAddresses[i]) /\ TimesStored(mergedAddresses, mergedAddresses[i]) = 1
  /\ \A n \in 1..Len(allAddressArrays) : \A i \in 1..Len(allAddressArrays[n]) :
       IsLowerCased(allAddressArrays[n][i])
  /\ \A address \in DOMAIN addressCounts : IsLowerCased(address)
  /\ Counting =>
       \A i \in 1..Len(findings) :
         LET address == findings[i].address IN
         CountOf(addressCounts, address)
           = Plus(CountOf(before.c, address),
                  Cardinality({n \in 1..Len(findings) : FoldsTo(findings[n].raw, address)}))

\* C7: in the counting variants every stored count is a positive integer,
\* and while a record is processed no count is below what it was when the
\* rules in hand started and no key of then is missing.
C7_CountsOnlyGrow ==
  Counting =>
    /\ \A address \in DOMAIN addressCounts :
         addressCounts[address].t = "number" /\ addressCounts[address].n >= 1
    /\ dpc # "none" =>
         \A address \in DOMAIN before.c :
           /\ address \in DOMAIN addressCounts
           /\ before.c[address].t = "number"
           /\ addressCounts[address].n >= before.c[address].n

\* C8: for a record of eth_getTransactionByHash whose result carries the
\* string `from` A, the rule's findings are lower-case(A), once, and the
\* resolver is not called for the record.
C8_ResultFromFound ==
  /\ (/\ StageOneEnded /\ doc.method = eth_getTransactionByHash
      /\ doc.result # UNREAD
      /\ GetFrom(doc.result).t = "string" /\ GetFrom(doc.result).s # <<>>)
     => /\ dpc = "case3"
        /\ FindingsAre("result", <<GetFrom(doc.result).s>>)
  /\ doc.method = eth_getTransactionByHash => calls = <<>> /\ pending = <<>>

\* C8, its case: the result carries 0xA, the finding is 0xa
C8_UpperCaseFromFound ==
  /\ dpc = "case3" /\ doc.method = eth_getTransactionByHash
  /\ doc.result = Obj(Str(ADDR_A))
  /\ findings = <<[rule |-> "result", raw |-> ADDR_A, address |-> ADDR_a]>>
  /\ calls = <<>>

\* no rule of the first group matches the record
NoRuleOne ==
  CASE doc.method \in BlockMethods ->
         /\ doc.result # UNREAD
         /\ ~(IsArray(GetTransactions(doc.result)) /\ Txs # <<>>)
    [] doc.method = eth_sendRawTransaction ->
         doc.result # UNREAD /\ ~Truthy(doc.result)
    [] doc.method = eth_getTransactionByHash ->
         doc.result # UNREAD /\ ~Truthy(GetFrom(doc.result))
    [] doc.method = eth_getTransactionReceipt ->
         doc.params # UNREAD /\ ~Truthy(GetFirst(doc.params))
    [] OTHER -> TRUE

\* no rule of the second group matches the record
NoRuleTwo ==
  /\ doc.params # UNREAD
  /\ ~(/\ IsArray(doc.params)
       /\ \E i \in 1..Len(doc.params.elems) :
            doc.params.elems[i].t = "object" /\ Truthy(doc.params.elems[i].from))

\* C9: where no rule matches a record (a method no rule names, no params,
\* no result, or a payload without the field the rule reads) nothing is
\* added to the unique set or the counts, the resolver is not called, and
\* nothing is raised: in the first group of rules and in the second.
C9_NoRuleNoEffect ==
  /\ (/\ NoRuleOne
      /\ dpc \in {"txhash", "sendraw", "receipt"} \/ StageOneEnded)
     => /\ dpc = "case3"
        /\ findings = <<>> /\ calls = <<>> /\ pending = <<>>
        /\ NothingAdded
  /\ (StageTwoEnded /\ NoRuleTwo)
     => /\ dpc = "done"
        /\ findings = <<>> /\ calls = <<>> /\ pending = <<>>
        /\ NothingAdded

\* C9, its case: a record of a method no rule names, without params, has
\* been processed to its end
C9_UnknownMethodProcessed ==
  /\ dpc = "done" /\ doc.method = "eth_chainId" /\ doc.params = UNDEF
  /\ findings = <<>> /\ evaluated = {"case1", "case3", "case4"}

\* C10: for a record of eth_getTransactionReceipt the hash is params[0]:
\* present, the resolver is called exactly once, with it, and the rule's
\* findings are the lower-cased `from` of the answer if the call succeeded
\* with one, none if it failed; absent, the resolver is not called; and no
\* exception leaves the rule.
C10_ReceiptHashResolved ==
  (/\ doc.method = eth_getTransactionReceipt /\ doc.params # UNREAD
   /\ dpc = "receipt" \/ StageOneEnded)
  => /\ dpc # "thrown"
     /\ IF Truthy(GetFirst(doc.params))
        THEN /\ Len(calls) = 1
             /\ calls[1].hash = GetFirst(doc.params)
             /\ dpc = "case3" => calls[1].answer # AWAITED
             /\ FindingsAre("resolved", AnsweredFroms(calls))
        ELSE dpc = "case3" /\ calls = <<>> /\ findings = <<>>

\* C10, its case: the call for the hash of params[0] failed
C10_ReceiptCallFailed ==
  /\ dpc = "case3" /\ doc.method = eth_getTransactionReceipt
  /\ doc.params = Arr(<<Str(H1)>>)
  /\ calls = <<[hash |-> Str(H1), answer |-> THROW]>>
  /\ findings = <<>>

Twice(v) == IF v.t = "number" THEN Num(2 * v.n) ELSE NaN

\* C12: a finding sequence fed to the aggregator a second time leaves the
\* unique set with exactly its members and, in the counting variants,
\* doubles the count of every address.
C12_TwiceFedDoubles ==
  (pc = "refeed" /\ j = Len(findings))
  => /\ uniqueAddresses = before.u
     /\ Counting =>
          /\ DOMAIN addressCounts = DOMAIN before.c
          /\ \A i \in 1..Len(findings) :
               CountOf(addressCounts, findings[i].address)
                 = Twice(CountOf(before.c, findings[i].address))

\* the addresses of a list, as a set
Members(l) == {l[i] : i \in 1..Len(l)}

\* C13: mergeAddresses returns the union of the chains' lists: an address
\* is in the result exactly when it is in a list, it is there once, and
\* merging the result again, with itself or with any of the lists, gives
\* the same addresses.
C13_MergeIsUnion ==
  (pc = "write" /\ mode # "single")
  => /\ Members(mergedAddresses)
          = UNION {Members(allAddressArrays[n]) : n \in 1..Len(allAddressArrays)}
     /\ \A i \in 1..Len(mergedAddresses) :
          TimesStored(mergedAddresses, mergedAddresses[i]) = 1
     /\ MergeAddresses(<<mergedAddresses, mergedAddresses>>) = mergedAddresses
     /\ \A n \in 1..Len(allAddressArrays) :
          Members(MergeAddresses(<<mergedAddresses, allAddressArrays[n]>>))
            = Members(mergedAddresses)

\* C13, its case: {0xa, 0xb} merged with {0xb, 0xc} is {0xa, 0xb, 0xc}
C13_OverlappingListsMerged ==
  /\ pc = "write"
  /\ allAddressArrays = <<<<ADDR_a, ADDR_b>>, <<ADDR_b, ADDR_c>>, <<>>, <<>>>>
  /\ mergedAddresses = <<ADDR_a, ADDR_b, ADDR_c>>

\* C14: there is no timeout around a resolver call.  If every call
\* settles, the run ends, with every record of the list in hand attempted;
\* and whatever step is taken while a call is outstanding is that call
\* settling: until then no record, no chain and no end of the run is
\* reached.
C14_EndsUnlessCallHangs ==
  /\ <>(pc \in {"exit0", "exit1"} /\ processedCount = numDocs)
  /\ [][pending # <<>> =>
          /\ Len(calls') >= Len(calls)
          /\ calls'[Len(calls)].answer # AWAITED
          /\ processedCount' = processedCount
          /\ chainIdx' = chainIdx /\ pc' = pc]_vars

\* C14, its case: a call is outstanding while a later hash of the record,
\* a later record of the chain and a later chain wait
C14_CallOutstandingOthersWait ==
  /\ pending # <<>> /\ dpc = "txhash" /\ j < Len(Txs)
  /\ processedCount < numDocs
  /\ mode # "single" /\ chainIdx < Len(ALL_CHAINS)

\* C15: with a resolver whose answer depends only on the hash, the counts
\* and the unique set (as a set) after a record list has been processed are
\* those after any permutation of the list has been processed, records that
\* raise included.
C15_OrderOfRecordsIrrelevant ==
  pc = "write" =>
    /\ Members(uniqueAddresses) = Members(firstPass.u)
    /\ addressCounts = firstPass.c

\* two different records, one of which raised, processed in both orders,
\* the addresses found in another order
C15_PermutedWithException ==
  /\ pc = "write"
  /\ transactions # firstPass.transactions
  /\ errors > 0
  /\ uniqueAddresses # firstPass.u
  /\ Counting /\ DOMAIN addressCounts # {}

\* C16: a failure while handling one chain stays in that chain: processChain
\* returns an empty list and a count of 0 instead of raising (the run does
\* not end there), the lists and the counts collected so far are unchanged,
\* every chain of ALL_CHAINS has returned a list when the lists are merged,
\* and every address of every list is in the merged output.
C16_ChainFailureContained ==
  /\ [][(pc = "chains" \/ pc = "caught") => pc' # "exit1"]_vars
  /\ [][pc = "caught" =>
          /\ pc' = "chains" /\ chainIdx' = chainIdx + 1
          /\ allAddressArrays' = Append(allAddressArrays, <<>>)
          /\ transactionsByChain' = Append(transactionsByChain, 0)
          /\ addressCounts' = addressCounts]_vars
  /\ [](pc = "write" /\ mode # "single" =>
          /\ Len(allAddressArrays) = Len(ALL_CHAINS)
          /\ \A i \in 1..Len(allAddressArrays) :
                Members(allAddressArrays[i]) \subseteq Members(mergedAddresses))

\* a chain fails after an earlier chain has returned addresses (counted, in
\* the counting variant), with chains still to process
C16_ChainFailsAfterAddresses ==
  /\ pc = "caught" /\ chainIdx > 1 /\ chainIdx < Len(ALL_CHAINS)
  /\ allAddressArrays[1] # <<>>
  /\ mode = "multi" /\ DOMAIN addressCounts # {}

\* C17: the block rule chooses its branch from the first element of the
\* transactions sequence alone.  When typeof of the first element is
\* 'object', no element is passed to the resolver and every finding is an
\* inline `from`; otherwise every element, a later transaction object
\* included, is passed to the resolver, in order, and the findings are the
\* `from` of the answers and of nothing else.
C17_FirstElementChoosesBranch ==
  (/\ doc.method \in BlockMethods /\ doc.result # UNREAD
   /\ IsArray(GetTransactions(doc.result))
   /\ dpc \in {"txhash", "case3", "thrown"})
  => IF Txs # <<>> /\ TypeOf(Txs[1]) = "object"
     THEN /\ calls = <<>> /\ pending = <<>>
          /\ \A i \in 1..Len(findings) :
               /\ findings[i].rule = "block"
               /\ \E k \in 1..Len(Txs) : GetFrom(Txs[k]) = Str(findings[i].raw)
     ELSE /\ dpc # "thrown"
          /\ Len(calls) <= Len(Txs)
          /\ \A i \in 1..Len(calls) : calls[i].hash = Txs[i]
          /\ dpc = "case3" => Len(calls) = Len(Txs)
          /\ FindingsAre("resolved", AnsweredFroms(calls))

\* a hash string followed by a transaction object: the object was handed
\* to the resolver and its own `from` is no finding
C17_ObjectAfterHashResolved ==
  /\ dpc = "case3" /\ IsBlockRecord
  /\ Txs = <<Str(H1), Obj(Str(ADDR_A))>>
  /\ Len(calls) = 2 /\ calls[2].hash = Obj(Str(ADDR_A))
  /\ calls[2].answer = Obj(Str(ADDR_a))
  /\ Len(findings) = 1 /\ findings[1].raw = ADDR_a

\* the sum of the counts of a mapping, as JavaScript adds them
Add(a, b) == IF a.t = "number" /\ b.t = "number" THEN Num(a.n + b.n) ELSE NaN
RECURSIVE SumOver(_, _)
SumOver(c, keys) ==
  IF keys = {} THEN Num(0)
  ELSE LET k == CHOOSE x \in keys : TRUE IN Add(c[k], SumOver(c, keys \ {k}))
SumOfCounts(c) == SumOver(c, DOMAIN c)

\* C18: in the multi-chain counting variant the unique sets and the counts
\* agree: between two records every address of the chain's unique set is a
\* key of the counts, and when the lists have been merged the keys of the
\* counts are the addresses of the merged list and the counts add up to the
\* number of findings recorded.
C18_SetsAndCountsAgree ==
  mode = "multi" =>
    /\ (pc = "extract" /\ dpc = "none") =>
          Members(uniqueAddresses) \subseteq DOMAIN addressCounts
    /\ pc = "write" =>
          /\ DOMAIN addressCounts = Members(mergedAddresses)
          /\ SumOfCounts(addressCounts) = Num(recorded)
====
